---- MODULE Spec2Model ----
(***************************************************************************)
(* One build of an egui_extras table in one frame:                         *)
(*   TableBuilder -> (header ->) Table -> TableBody -> TableRow            *)
(* as written in egui_extras/src/table.rs.  Lengths are whole pixels.      *)
(* The strip layout (layout.rs) and the sizing resolver (sizing.rs) are    *)
(* not part of the sources at hand; they are modelled from the design      *)
(* document (sections 4.1 and 4.2).                                        *)
(***************************************************************************)
EXTENDS Integers, Sequences, FiniteSets, TLC

VARIABLES
    pc,         \* position in the build pipeline
    sizing,     \* TableBuilder.sizing : sequence of Size (moved out by into_lengths)
    scroll,     \* TableBuilder.scroll / Table.scroll
    striped,    \* TableBuilder.striped / Table.striped / TableBody.striped
    widths,     \* Table.widths / TableBody.widths
    ui_y,       \* top of ui.available_rect_before_wrap()
    start_y,    \* TableBody.start_y
    end_y,      \* TableBody.end_y
    row_nr,     \* TableBody.row_nr
    layout,     \* the Layout the open header/body draws into
    row,        \* <<>> or <<r>>: the live TableRow
    loop,       \* <<>> or <<l>>: the locals of a running TableBody::rows
    resolves,   \* history: every call of Sizing::into_lengths
    last,       \* history: <<>> or <<e>>, the TableRow constructed most recently
    emitted,    \* history: the rows the running TableBody::rows has emitted
    rowHist,    \* history: the col calls made on the live row, the last cell placed
    scopes,     \* history: counts of bodies built, set_rect calls, `row` calls
    panic       \* <<>> or <<p>>: the failed column assertion

vars == <<pc, sizing, scroll, striped, widths, ui_y, start_y, end_y, row_nr,
          layout, row, loop, resolves, last, emitted, rowHist, scopes, panic>>

----------------------------------------------------------------------------
(* Bounds of the exploration *)

MaxCols == 2        \* column size hints added to one builder
MaxHeight == 2      \* row heights are 1..MaxHeight
MaxRows == 3        \* `rows` argument of TableBody::rows is 0..MaxRows
MaxView == 2        \* height of the viewport is 0..MaxView
MaxScroll == 2      \* scroll offset of the ScrollArea is 0..MaxScroll
MaxRowCalls == 2    \* TableBody::row calls on one body

(* Values read from the Ui *)

AvailWidth == 8     \* ui.available_rect_before_wrap().width()
ItemSpacingX == 1   \* ui.spacing().item_spacing.x
ScrollBarWidth == 2 \* ui.spacing().scroll_bar_width

----------------------------------------------------------------------------
(* Arithmetic helpers *)

Max(a, b) == IF a >= b THEN a ELSE b

Min(a, b) == IF a <= b THEN a ELSE b

\* f32::floor of a / b followed by `as usize` (saturating at 0), b > 0
FloorDivUsize(a, b) == IF a <= 0 THEN 0 ELSE a \div b

\* f32::ceil of a / b followed by `as usize` (saturating at 0), b > 0
CeilDivUsize(a, b) == IF a <= 0 THEN 0 ELSE (a + b - 1) \div b

----------------------------------------------------------------------------
(* Size and Sizing (design document 3 and 4.1) *)

Absolute(px) == [kind |-> "Absolute", val |-> px, min |-> 0]

RemainderMinimum(m) == [kind |-> "Remainder", val |-> 0, min |-> m]

Sizes == {Absolute(2), RemainderMinimum(1)}

RECURSIVE NonRemainderSum(_, _)
NonRemainderSum(sizes, length) ==
    IF sizes = <<>> THEN 0
    ELSE LET s == Head(sizes)
             w == CASE s.kind = "Absolute" -> s.val
                    [] s.kind = "Relative" -> Max(s.min, (s.val * length) \div 100)
                    [] OTHER -> 0
         IN w + NonRemainderSum(Tail(sizes), length)

Remainders(sizes) == Cardinality({i \in 1..Len(sizes) : sizes[i].kind = "Remainder"})

into_lengths(sizes, length, spacing) ==
    LET n == Len(sizes)
        leftover == length - NonRemainderSum(sizes, length) - (n - 1) * spacing
        share == IF Remainders(sizes) = 0 THEN 0 ELSE leftover \div Remainders(sizes)
    IN [i \in 1..n |->
           CASE sizes[i].kind = "Absolute" -> sizes[i].val
             [] sizes[i].kind = "Relative" ->
                    Max(sizes[i].min, (sizes[i].val * length) \div 100)
             [] OTHER -> Max(sizes[i].min, share)]

----------------------------------------------------------------------------
(* Layout (design document 4.2): a cursor and the extent of the line *)

NewLayout(y) == [y |-> y, max |-> y]

\* Layout::add / add_striped / add_colored: a cell of height h at the cursor
LayoutAdd(l, h) == [l EXCEPT !.max = Max(l.max, l.y + h)]

\* Layout::end_line: the cursor moves below the line just filled
LayoutEndLine(l) == [l EXCEPT !.y = l.max]

current_y(l) == l.y

----------------------------------------------------------------------------
(* TableRow *)

NoBg == "None"

BgColors == {NoBg, "Some"}

\* the heights a header row is given
HeaderHeights == {1}

\* the TableRow { .. } struct literals: clicked starts false
TableRowNew(w, s, bg, h) ==
    [widths |-> w, striped |-> s, bg_color |-> bg, height |-> h, clicked |-> FALSE]

\* history record of a constructed row; y is the cursor when it was built
LogEntry(kind, idx, r, y) ==
    [kind |-> kind, idx |-> idx, height |-> r.height, striped |-> r.striped,
     y |-> y, w0 |-> r.widths, ended |-> 0]

\* mutation: the row is handed a vector that lost its first width
RowWidthsDrained(w) == IF w = <<>> THEN w ELSE Tail(w)

\* `widths.clone()` / `self.widths.clone()` handed to a new row
RowWidths(w) == w

\* mutation: the assertion fires one call early
ColAcceptsOffByOne(r) == Len(r.widths) > 1

\* assert!(!self.widths.is_empty(), ..) of TableRow::_col
ColAccepts(r) == r.widths # <<>>

\* mutation: clicked follows the last response only
ColClickedLast(clicked, response) == response

\* if response.clicked() { self.clicked = true; }
ColClicked(clicked, response) == clicked \/ response

\* the background TableRow::_col paints the cell with
ColPaint(r) ==
    IF r.bg_color = NoBg
    THEN (IF r.striped THEN "add_striped" ELSE "add")
    ELSE "add_colored"

\* let width = CellSize::Absolute(self.widths.remove(0));
ColWidth(r) == Head(r.widths)

\* mutation: the width is taken from the back of the vector (widths.pop())
ColRowPop(r, response) ==
    [r EXCEPT !.widths = SubSeq(r.widths, 1, Len(r.widths) - 1),
              !.clicked = ColClicked(r.clicked, response)]

\* TableRow::_col past its assertion: the row after the call
ColRow(r, response) ==
    [r EXCEPT !.widths = Tail(r.widths),
              !.clicked = ColClicked(r.clicked, response)]

\* no col call made yet on the live row
NoCalls == [calls |-> 0, clicks |-> 0, paint |-> "none", cell |-> <<>>]

\* TableRow::clicked
clicked(r) == r.clicked

\* what `emitted` keeps of a row
Emitted(e) == [kind |-> e.kind, idx |-> e.idx, height |-> e.height]

\* mutation: the row is dropped without ending its line
DropRowForgotten(e) == e

\* Drop for TableRow: self.layout.end_line(), counted on the row's history record
DropRow(e) == [e EXCEPT !.ended = @ + 1]

\* Drop for TableBody: self.layout.set_rect()
DropBody(sc) == [sc EXCEPT !.set_rects = @ + 1]

----------------------------------------------------------------------------
(* TableBuilder *)

Init ==
    /\ pc = "Configuring"
    /\ sizing = <<>>
    /\ scroll = TRUE
    /\ striped = FALSE
    /\ widths = <<>>
    /\ ui_y = 0
    /\ start_y = 0
    /\ end_y = 0
    /\ row_nr = 0
    /\ layout = NewLayout(0)
    /\ row = <<>>
    /\ loop = <<>>
    /\ resolves = <<>>
    /\ last = <<>>
    /\ emitted = <<>>
    /\ rowHist = NoCalls
    /\ scopes = [bodies |-> 0, set_rects |-> 0, header_rects |-> 0, row_calls |-> 0]
    /\ panic = <<>>

Scroll(b) ==
    /\ pc = "Configuring"
    /\ scroll # b
    /\ scroll' = b
    /\ UNCHANGED <<pc, sizing, striped, widths, ui_y, start_y, end_y, row_nr,
                   layout, row, loop, resolves, last, emitted, rowHist, scopes, panic>>

Striped(b) ==
    /\ pc = "Configuring"
    /\ striped # b
    /\ striped' = b
    /\ UNCHANGED <<pc, sizing, scroll, widths, ui_y, start_y, end_y, row_nr,
                   layout, row, loop, resolves, last, emitted, rowHist, scopes, panic>>

Column(width) ==
    /\ pc = "Configuring"
    /\ Len(sizing) < MaxCols
    /\ sizing' = Append(sizing, width)
    /\ UNCHANGED <<pc, scroll, striped, widths, ui_y, start_y, end_y, row_nr,
                   layout, row, loop, resolves, last, emitted, rowHist, scopes, panic>>

Columns(size, count) ==
    /\ pc = "Configuring"
    /\ Len(sizing) + count <= MaxCols
    /\ sizing' = sizing \o [i \in 1..count |-> size]
    /\ UNCHANGED <<pc, scroll, striped, widths, ui_y, start_y, end_y, row_nr,
                   layout, row, loop, resolves, last, emitted, rowHist, scopes, panic>>

\* the total width TableBuilder::header hands to into_lengths
HeaderBudget ==
    AvailWidth - ItemSpacingX - (IF scroll THEN ScrollBarWidth ELSE 0)

\* the total width TableBuilder::body hands to into_lengths
BodyBudget == AvailWidth

\* history record of one call of Sizing::into_lengths
Resolve(total, w) ==
    [total |-> total, spacing |-> ItemSpacingX, scroll |-> scroll, widths |-> w]

\* TableBuilder::header up to the call of the header callback
Header(height) ==
    /\ pc = "Configuring"
    /\ LET w == into_lengths(sizing, HeaderBudget, ItemSpacingX)
           r == TableRowNew(RowWidths(w), FALSE, NoBg, height)
       IN /\ resolves' = Append(resolves, Resolve(HeaderBudget, w))
          /\ widths' = w
          /\ sizing' = <<>>
          /\ layout' = NewLayout(ui_y)
          /\ row' = <<r>>
          /\ last' = <<LogEntry("header", 0, r, ui_y)>>
    /\ rowHist' = NoCalls
    /\ pc' = "Header"
    /\ UNCHANGED <<scroll, striped, ui_y, start_y, end_y, row_nr,
                   loop, emitted, scopes, panic>>

\* the header callback returns: the row is dropped, then layout.set_rect()
HeaderEnd ==
    /\ pc = "Header"
    /\ row' = <<>>
    /\ rowHist' = NoCalls
    /\ last' = <<DropRow(last[1])>>
    /\ layout' = LayoutEndLine(layout)
    /\ ui_y' = layout'.y
    /\ scopes' = [scopes EXCEPT !.header_rects = @ + 1]
    /\ pc' = "Table"
    /\ UNCHANGED <<sizing, scroll, striped, widths, start_y, end_y, row_nr,
                   loop, resolves, emitted, panic>>

----------------------------------------------------------------------------
(* Table *)

\* Table::body up to the call of the body callback, inside the ScrollArea
OpenBody(view, offset) ==
    /\ start_y' = ui_y
    /\ end_y' = ui_y + view
    /\ layout' = NewLayout(ui_y - offset)
    /\ row_nr' = 0
    /\ scopes' = [scopes EXCEPT !.bodies = @ + 1]
    /\ pc' = "Body"

Offsets == IF scroll THEN 0..MaxScroll ELSE {0}

\* Table::body, after a header
TableBodyCall ==
    /\ pc = "Table"
    /\ \E view \in 0..MaxView, offset \in Offsets : OpenBody(view, offset)
    /\ UNCHANGED <<sizing, scroll, striped, widths, ui_y, row, loop, resolves,
                   last, emitted, rowHist, panic>>

\* TableBuilder::body, without a header
BuilderBodyCall ==
    /\ pc = "Configuring"
    /\ widths' = into_lengths(sizing, BodyBudget, ItemSpacingX)
    /\ resolves' = Append(resolves, Resolve(BodyBudget, widths'))
    /\ sizing' = <<>>
    /\ \E view \in 0..MaxView, offset \in Offsets : OpenBody(view, offset)
    /\ UNCHANGED <<scroll, striped, ui_y, row, loop, last, emitted, rowHist, panic>>

----------------------------------------------------------------------------
(* The column assertion fails on the row recorded as e: the panic unwinds, *)
(* dropping the row and, inside a body, the TableBody                      *)

Unwind(e, calls, inBody) ==
    /\ pc' = "Panicked"
    /\ panic' = <<[calls |-> calls, columns |-> Len(e.w0), kind |-> e.kind]>>
    /\ row' = <<>>
    /\ rowHist' = NoCalls
    /\ last' = <<DropRow(e)>>
    /\ layout' = LayoutEndLine(layout)
    /\ scopes' = IF inBody THEN DropBody(scopes) ELSE scopes

----------------------------------------------------------------------------
(* TableRow::col and TableRow::col_clip, called by a row callback *)

_col(clip, response) ==
    /\ pc \in {"Header", "Row", "RowsRow"}
    /\ row # <<>>
    /\ IF ColAccepts(row[1])
       THEN /\ row' = <<ColRow(row[1], response)>>
            /\ layout' = LayoutAdd(layout, row[1].height)
            /\ rowHist' = [calls |-> rowHist.calls + 1,
                            clicks |-> rowHist.clicks + (IF response THEN 1 ELSE 0),
                            paint |-> ColPaint(row[1]),
                            cell |-> <<ColWidth(row[1]), row[1].height>>]
            /\ UNCHANGED <<pc, last, scopes, panic>>
       ELSE Unwind(last[1], rowHist.calls + 1, pc # "Header")
    /\ UNCHANGED <<sizing, scroll, striped, widths, ui_y, start_y, end_y, row_nr,
                   loop, resolves, emitted>>

col == \E response \in BOOLEAN : _col(FALSE, response)

col_clip == \E response \in BOOLEAN : _col(TRUE, response)

----------------------------------------------------------------------------
(* TableBody::row *)

\* striped: self.striped && self.row_nr % 2 == 0
RowStriped(s, nr) == s /\ nr % 2 = 0

\* TableBody::row up to the call of the row callback
Row(height, bg_color) ==
    /\ pc = "Body"
    /\ row_nr < MaxRowCalls
    /\ LET r == TableRowNew(RowWidths(widths), RowStriped(striped, row_nr),
                            bg_color, height)
       IN /\ row' = <<r>>
          /\ last' = <<LogEntry("row", 0, r, current_y(layout))>>
    /\ rowHist' = NoCalls
    /\ scopes' = [scopes EXCEPT !.row_calls = @ + 1]
    /\ pc' = "Row"
    /\ UNCHANGED <<sizing, scroll, striped, widths, ui_y, start_y, end_y, row_nr,
                   layout, loop, resolves, emitted, panic>>

\* self.row_nr += 1
RowNr(nr) == nr + 1

\* the row callback returns: the row is dropped, then self.row_nr += 1
RowEnd ==
    /\ pc = "Row"
    /\ row' = <<>>
    /\ rowHist' = NoCalls
    /\ last' = <<DropRow(last[1])>>
    /\ layout' = LayoutEndLine(layout)
    /\ row_nr' = RowNr(row_nr)
    /\ pc' = "Body"
    /\ UNCHANGED <<sizing, scroll, striped, widths, ui_y, start_y, end_y,
                   loop, resolves, emitted, scopes, panic>>

\* the body callback returns without having called `rows`: the body is dropped
BodyEnd ==
    /\ pc = "Body"
    /\ scopes' = DropBody(scopes)
    /\ pc' = "Done"
    /\ UNCHANGED <<sizing, scroll, striped, widths, ui_y, start_y, end_y, row_nr,
                   layout, row, loop, resolves, last, emitted, rowHist, panic>>

----------------------------------------------------------------------------
(* TableBody::rows *)

\* let mut start = 0; if delta < 0.0 { start = (-delta / height).floor() as usize; .. }
RowsStart(delta, height) ==
    IF delta < 0 THEN FloorDivUsize(-delta, height) ELSE 0

\* the condition under which the filler above the rendered rows is emitted
FillerAbove(delta, start) == delta < 0

\* mutation: the count of rows is rounded down
RowsEndFloor(start, max_height, height, rows) ==
    Min(start + FloorDivUsize(max_height, height), rows)

\* let count = (max_height / height).ceil() as usize;
\* let end = cmp::min(start + count, rows);
RowsEnd(start, max_height, height, rows) ==
    Min(start + CeilDivUsize(max_height, height), rows)

\* the condition under which the filler below the rendered rows is emitted
FillerBelow(rows, end) == rows - end > 0

\* mutation: the striped flag is passed on without alternation
RowsStripedAll(s, idx) == s

\* striped: self.striped && idx % 2 == 0
RowsStriped(s, idx) == s /\ idx % 2 = 0

\* a filler row: TableRow { .. height: skip_height .. }.col(|_| ())
Filler(skip_height) == TableRowNew(RowWidths(widths), FALSE, NoBg, skip_height)

\* TableBody::rows up to its for loop
Rows(height, rows) ==
    /\ pc = "Body"
    /\ LET delta == current_y(layout) - start_y
           start == RowsStart(delta, height)
           end == RowsEnd(start, end_y - start_y, height, rows)
           f == Filler(start * height)
           e == LogEntry("above", 0, f, current_y(layout))
           l == [height |-> height, rows |-> rows, delta |-> delta,
                 start |-> start, end |-> end, idx |-> start]
       IN /\ loop' = <<l>>
          /\ IF FillerAbove(delta, start)
             THEN /\ emitted' = <<Emitted(e)>>
                  /\ IF ColAccepts(f)
                     THEN /\ last' = <<DropRow(e)>>
                          /\ layout' = LayoutEndLine(LayoutAdd(layout, f.height))
                          /\ pc' = "Rows"
                          /\ UNCHANGED <<row, rowHist, scopes, panic>>
                     ELSE Unwind(e, 1, TRUE)
             ELSE /\ pc' = "Rows"
                  /\ emitted' = <<>>
                  /\ UNCHANGED <<last, layout, row, rowHist, scopes, panic>>
    /\ UNCHANGED <<sizing, scroll, striped, widths, ui_y, start_y, end_y, row_nr,
                   resolves>>

\* one iteration of `for idx in start..end`, up to the call of the callback
RowsCall ==
    /\ pc = "Rows"
    /\ loop[1].idx < loop[1].end
    /\ LET r == TableRowNew(RowWidths(widths), RowsStriped(striped, loop[1].idx),
                            NoBg, loop[1].height)
           e == LogEntry("rows", loop[1].idx, r, current_y(layout))
       IN /\ row' = <<r>>
          /\ last' = <<e>>
          /\ emitted' = Append(emitted, Emitted(e))
    /\ rowHist' = NoCalls
    /\ pc' = "RowsRow"
    /\ UNCHANGED <<sizing, scroll, striped, widths, ui_y, start_y, end_y, row_nr,
                   layout, loop, resolves, scopes, panic>>

\* the callback of `rows` returns: the row is dropped, the loop goes on
RowsRowEnd ==
    /\ pc = "RowsRow"
    /\ row' = <<>>
    /\ rowHist' = NoCalls
    /\ last' = <<DropRow(last[1])>>
    /\ layout' = LayoutEndLine(layout)
    /\ loop' = <<[loop[1] EXCEPT !.idx = @ + 1]>>
    /\ pc' = "Rows"
    /\ UNCHANGED <<sizing, scroll, striped, widths, ui_y, start_y, end_y, row_nr,
                   resolves, emitted, scopes, panic>>

\* TableBody::rows after its for loop, to its return, where self is dropped
RowsFinish ==
    /\ pc = "Rows"
    /\ loop[1].idx >= loop[1].end
    /\ LET f == Filler((loop[1].rows - loop[1].end) * loop[1].height)
           e == LogEntry("below", 0, f, current_y(layout))
       IN IF FillerBelow(loop[1].rows, loop[1].end)
          THEN /\ emitted' = Append(emitted, Emitted(e))
               /\ IF ColAccepts(f)
                  THEN /\ last' = <<DropRow(e)>>
                       /\ layout' = LayoutEndLine(LayoutAdd(layout, f.height))
                       /\ scopes' = DropBody(scopes)
                       /\ pc' = "Done"
                       /\ UNCHANGED <<row, rowHist, panic>>
                  ELSE Unwind(e, 1, TRUE)
          ELSE /\ scopes' = DropBody(scopes)
               /\ pc' = "Done"
               /\ UNCHANGED <<last, emitted, layout, row, rowHist, panic>>
    /\ UNCHANGED <<sizing, scroll, striped, widths, ui_y, start_y, end_y, row_nr,
                   loop, resolves>>

----------------------------------------------------------------------------

Next ==
    \/ \E b \in BOOLEAN : Scroll(b)
    \/ \E b \in BOOLEAN : Striped(b)
    \/ \E s \in Sizes : Column(s)
    \/ \E s \in Sizes, count \in 2..MaxCols : Columns(s, count)
    \/ \E h \in HeaderHeights : Header(h)
    \/ HeaderEnd
    \/ TableBodyCall
    \/ BuilderBodyCall
    \/ col
    \/ col_clip
    \/ \E h \in 1..MaxHeight, bg \in BgColors : Row(h, bg)
    \/ RowEnd
    \/ BodyEnd
    \/ \E h \in 1..MaxHeight, n \in 0..MaxRows : Rows(h, n)
    \/ RowsCall
    \/ RowsRowEnd
    \/ RowsFinish

Spec == Init /\ [][Next]_vars

----------------------------------------------------------------------------
(* Properties of TableBody::rows *)

RECURSIVE SumHeights(_)
SumHeights(es) ==
    IF es = <<>> THEN 0 ELSE Head(es).height + SumHeights(Tail(es))

OfKind(es, kind) == SelectSeq(es, LAMBDA e : e.kind = kind)

\* the `rows` call has returned normally
RowsReturned == pc = "Done" /\ loop # <<>>

\* the window of indices the design document prescribes for a `rows` call
SpecStart(l) == IF l.delta < 0 THEN (-l.delta) \div l.height ELSE 0

SpecCount(l) ==
    IF end_y - start_y <= 0 THEN 0
    ELSE (end_y - start_y + l.height - 1) \div l.height

SpecEnd(l) == Min(SpecStart(l) + SpecCount(l), l.rows)

\* C1: when a call of TableBody::rows(height, N, cb) has returned, the heights
\* of all rows it emitted (filler above, one `height` per rendered row, filler
\* below) add up to exactly N * height, for any scroll offset.
C1_TotalHeight ==
    RowsReturned => SumHeights(emitted) = loop[1].rows * loop[1].height

\* C2: TableBody::rows invokes the row callback exactly once for each index
\* of [start, end) and for no other, in ascending order, with
\* start = floor(-delta/height) if delta < 0 and 0 otherwise, and
\* end = min(start + ceil((end_y - start_y)/height), N): at every point of the
\* call the indices called so far are start, start+1, .. and, once the call
\* has returned, they are all of [start, end).
C2_CallbackIndices ==
    loop # <<>> =>
        LET l == loop[1]
            called == OfKind(emitted, "rows")
            window == IF SpecEnd(l) > SpecStart(l) THEN SpecEnd(l) - SpecStart(l) ELSE 0
        IN /\ \A i \in 1..Len(called) : called[i].idx = SpecStart(l) + i - 1
           /\ Len(called) <= window
           /\ RowsReturned => Len(called) = window

\* a `rows` call scrolled past its first row has returned after calling back
\* for two or more indices
C2_Witness ==
    /\ RowsReturned
    /\ loop[1].start > 0
    /\ Len(OfKind(emitted, "rows")) >= 2

\* C3: TableBody::rows emits a filler row before the rendered rows iff
\* start > 0, of height start * height, and a filler row after them iff
\* N - end > 0, of height (N - end) * height, and no other filler row.
C3_Fillers ==
    RowsReturned =>
        LET l == loop[1]
            above == OfKind(emitted, "above")
            below == OfKind(emitted, "below")
        IN /\ Len(above) = (IF SpecStart(l) > 0 THEN 1 ELSE 0)
           /\ \A i \in 1..Len(above) : above[i].height = SpecStart(l) * l.height
           /\ Len(below) = (IF l.rows - SpecEnd(l) > 0 THEN 1 ELSE 0)
           /\ \A i \in 1..Len(below) : below[i].height = (l.rows - SpecEnd(l)) * l.height
           /\ (l.rows = 0 => Len(above) + Len(below) = 0)

----------------------------------------------------------------------------
(* Properties of TableRow *)

\* the number of columns the table of the row recorded as e was configured with
Columns0(e) == Len(e.w0)

\* C4: on a row of a table with n columns the column assertion fails exactly
\* at the (n+1)-th col/col_clip call: the calls made on a live row never
\* exceed n and each took one width, and whenever the assertion has failed it
\* was on call number n+1 (so never on a row that received n calls or fewer).
C4_ColumnOverflow ==
    /\ row # <<>> =>
          /\ rowHist.calls <= Columns0(last[1])
          /\ Len(row[1].widths) = Columns0(last[1]) - rowHist.calls
    /\ panic # <<>> => panic[1].calls = panic[1].columns + 1
    /\ (pc = "Panicked") = (panic # <<>>)

\* the assertion has failed in a callback's row of a table with two columns
C4_Witness ==
    /\ pc = "Panicked"
    /\ panic[1].kind \in {"header", "row", "rows"}
    /\ panic[1].columns = 2
    /\ panic[1].calls = 3

C10_Clicked ==
    row # <<>> => (clicked(row[1]) <=> rowHist.clicks > 0)

\* a row whose first of two col calls was the only clicked one
C10_Witness ==
    /\ row # <<>>
    /\ rowHist.calls = 2
    /\ rowHist.clicks = 1
    /\ clicked(row[1])

----------------------------------------------------------------------------
(* Properties of the build *)

\* C6: in any build the sizes are resolved into widths exactly once, and the
\* header row, every body row and every filler row start with that one width
\* sequence, which is also the one the body holds.
C6_WidthsOnce ==
    /\ Len(resolves) = (IF pc = "Configuring" THEN 0 ELSE 1)
    /\ pc # "Configuring" => widths = resolves[1].widths
    /\ last # <<>> => last[1].w0 = widths

\* a body row of a table with a header and two columns
C6_Witness ==
    /\ scopes.header_rects = 1
    /\ last # <<>>
    /\ last[1].kind \in {"row", "rows"}
    /\ Len(last[1].w0) = 2

\* C7: whenever scrolling is enabled, the total width handed to the sizing
\* resolver is net of the scroll-bar width, in TableBuilder::header and in the
\* headerless TableBuilder::body alike.
C7_BudgetNetOfScrollBar ==
    \A i \in 1..Len(resolves) :
        resolves[i].scroll => resolves[i].total <= AvailWidth - ScrollBarWidth

\* C8: every TableRow ends its line exactly once, when it goes out of scope
\* (not while it lives, once after), and every TableBody finalizes its layout
\* rect exactly once, when the body is dropped and no row lives, also when
\* the body callback emitted no row at all.
C8_CleanupOnce ==
    /\ last # <<>> => last[1].ended = (IF row # <<>> THEN 0 ELSE 1)
    /\ scopes.set_rects = (IF pc \in {"Done", "Panicked"} THEN scopes.bodies ELSE 0)
    /\ scopes.bodies = (IF pc \in {"Configuring", "Header", "Table"} THEN 0
                        ELSE IF pc = "Panicked" THEN scopes.bodies ELSE 1)
    /\ scopes.bodies <= 1
    /\ pc = "Done" => row = <<>>

\* a `rows` call has returned after a filler below, and the body is finalized
C8_Witness ==
    /\ RowsReturned
    /\ last # <<>>
    /\ last[1].kind = "below"
    /\ Len(OfKind(emitted, "rows")) >= 1
    /\ scopes.set_rects = 1

\* C9: every index for which TableBody::rows invokes the callback is a row
\* whose vertical extent [y, y + height] intersects the viewport
\* [start_y, end_y], for any cursor position at the time of the call.
C9_OnlyVisible ==
    (last # <<>> /\ last[1].kind = "rows") =>
        /\ last[1].y <= end_y
        /\ last[1].y + last[1].height >= start_y

----------------------------------------------------------------------------
(* Properties settled after the first ten *)

\* C11: within one row of a table with widths w[0..n-1] the k-th col/col_clip
\* call (k from 0) places a cell of width w[k] and of the row's height and
\* leaves the row with exactly the widths w[k+1..n-1], in order; the widths
\* the body holds are those resolved for the build, whatever col calls were
\* made on any row.
C11_ColDrainsInOrder ==
    /\ row # <<>> =>
          LET e == last[1]
              k == rowHist.calls
          IN /\ row[1].widths = SubSeq(e.w0, k + 1, Len(e.w0))
             /\ row[1].height = e.height
             /\ k >= 1 => rowHist.cell = <<e.w0[k], e.height>>
    /\ pc # "Configuring" => widths = resolves[1].widths

\* one col call made on a row of a table with two columns of different widths
C11_Witness ==
    /\ row # <<>>
    /\ rowHist.calls = 1
    /\ Len(last[1].w0) = 2
    /\ last[1].w0[1] # last[1].w0[2]
    /\ row[1].widths = <<last[1].w0[2]>>

\* where the row of index i of a `rows` call lies: the rows follow one another
\* from the cursor at the time of the call
RowTop(l, i) == start_y + l.delta + i * l.height

\* the row of index i and the viewport [start_y, end_y] share a strip of
\* positive height
Visible(l, i) ==
    Min(RowTop(l, i) + l.height, end_y) - Max(RowTop(l, i), start_y) > 0

CalledIndices == {emitted[j].idx : j \in {j \in 1..Len(emitted) : emitted[j].kind = "rows"}}

\* C12: TableBody::rows leaves no visible row unrendered: once the call has
\* returned, the callback was invoked for every index of [0, N) whose vertical
\* extent overlaps the viewport, for any scroll offset.
C12_NoVisibleRowSkipped ==
    RowsReturned =>
        \A i \in 0..(loop[1].rows - 1) :
            Visible(loop[1], i) => i \in CalledIndices


\* C13: TableBody::rows never fails the column assertion in its own filler
\* rows: for every column count n >= 0, every N and every scroll offset, the
\* assertion fails during a `rows` call only in a callback's row (on its
\* (n+1)-th col call), never in the filler above or the filler below.
C13_FillersNeverAssert ==
    panic # <<>> => panic[1].kind \notin {"above", "below"}

====
